---- MODULE Spec2Model ----
(***************************************************************************)
(* The policy gateway (src/app.js) and its load-testing client             *)
(* (src/unnamed/part_000, stress_test.js) as a state machine.              *)
(*                                                                         *)
(* A request walks the Express middleware chain of app.js in registration  *)
(* order: express.json (line 86), the authentication gate (133-138), the   *)
(* enforcer-ready gate (184-190), the route handler, and then either the   *)
(* error middleware (377-380) or the not-found handler (383-385).  A       *)
(* handler is split at each `await enforcer.x(...)`: the part before the   *)
(* await is one action, the engine's answer and the handler's              *)
(* continuation is another.                                                *)
(***************************************************************************)
EXTENDS Integers, Sequences, FiniteSets, TLC

VARIABLES
    proc,       \* "starting" | "initialized" | "listening" | "exited"
    enforcer,   \* the module-level `let enforcer` of app.js: "undefined" | "ready"
    policySet,  \* the Decision Engine's rules, a set of <<sub, obj, act>>
    now,        \* the clock, in seconds
    reqs,       \* per request slot: the request, its position in the chain, its response
    held,       \* the token the client holds between generateJWT() and the call
    env,        \* the client's process.env: [account, key]
    xl,         \* the client-side filter translation: [fieldIndex, fieldValues, get, remove]
    clients,    \* the load harness: per client, where clientBehavior stands
    stress      \* the load harness: where startStressTest stands

vars == <<proc, enforcer, policySet, now, reqs, held, env, xl, clients, stress>>

(***************************************************************************)
(* Bounds of the model.                                                    *)
(***************************************************************************)
MaxBatch == 2          \* longest `policies` array a request carries
MaxFieldIndex == 3     \* largest fieldIndex a request carries
MaxClock == 62         \* the clock stops here
MaxValues == 3         \* longest fieldValues list the client translates
MaxClientIndex == 4    \* largest fieldIndex the client translates
CONCURRENT_CLIENTS == 2    \* clients the harness starts (100 in stress_test.js)
REQUESTS_PER_CLIENT == 2   \* iterations of each client (100 in stress_test.js)
MaxInFlight == 2           \* requests in the gateway at once, where it serves several

(***************************************************************************)
(* Program constants.                                                      *)
(***************************************************************************)
TokenTTL == 60                      \* expiresIn: "1m"
ACCESS_CONTROL_SIGNKEY == "k1"      \* the gateway's process.env.ACCESS_CONTROL_SIGNKEY
AWS_ACCOUNT_ID == "acct1"           \* the gateway's process.env.AWS_ACCOUNT_ID
fieldNames == <<"sub", "obj", "act">>

(***************************************************************************)
(* Values.                                                                 *)
(***************************************************************************)
Undefined == "<undefined>"          \* JavaScript's undefined, for a string-valued field
Slots == {1}
Methods == {"GET", "POST", "DELETE"}
Paths == {"/health", "/policies", "/policy", "/filtered_policy", "/enforce", "/nope"}
Keys == {"k1", "k2"}
Accounts == {"acct1", "acct2"}
SubVals == {Undefined, "", "alice", "bob"}
ObjVals == {Undefined, "", "doc1"}
ActVals == {Undefined, "", "read"}
ClientVals == {"alice", "doc1", "read"}
PolicyUniverse == {<<"alice", "doc1", "read">>, <<"bob", "doc1", "read">>}

SeqsUpTo(S, n) == UNION {[1..k -> S] : k \in 0..n}

\* A raw fieldIndex: absent, not a number, or an integer.
FIUndef == [kind |-> "undefined", n |-> 0]
FINaN == [kind |-> "nan", n |-> 0]
FIInt(n) == [kind |-> "int", n |-> n]
\* the decimal string of an integer, as a query string carries it: Joi.number() converts it
FINumStr(n) == [kind |-> "numstr", n |-> n]
FieldIndexInputs == {FIUndef, FINaN} \cup {FIInt(n) : n \in -1..MaxFieldIndex}

NoPolicies == [present |-> FALSE, items |-> <<>>]
EmptyObj ==
    [fieldIndex |-> FIUndef, sub |-> Undefined, obj |-> Undefined,
     act |-> Undefined, policies |-> NoPolicies]

TupleElems == [sub : SubVals, obj : ObjVals, act : ActVals]
BatchElems ==
    { [sub |-> "alice", obj |-> "doc1", act |-> "read"],
      [sub |-> "bob", obj |-> "doc1", act |-> "read"],
      [sub |-> "", obj |-> "doc1", act |-> "read"],
      [sub |-> Undefined, obj |-> "doc1", act |-> "read"],
      [sub |-> "alice", obj |-> "", act |-> "read"],
      [sub |-> "bob", obj |-> "doc1", act |-> Undefined] }

TupleBodies == {[EmptyObj EXCEPT !.sub = t.sub, !.obj = t.obj, !.act = t.act] : t \in TupleElems}
BatchBodies ==
    {EmptyObj} \cup
    {[EmptyObj EXCEPT !.policies = [present |-> TRUE, items |-> s]] :
        s \in SeqsUpTo(BatchElems, MaxBatch)}
FilterBodies ==
    {[EmptyObj EXCEPT !.fieldIndex = f, !.sub = t.sub, !.obj = t.obj, !.act = t.act] :
        f \in FieldIndexInputs, t \in TupleElems}

\* Tokens and Authorization headers.
NoToken == [kind |-> "none", key |-> "", accountId |-> "", iat |-> 0, exp |-> 0]
MalformedToken == [kind |-> "malformed", key |-> "", accountId |-> "", iat |-> 0, exp |-> 0]
Jwt(k, a, i, e) == [kind |-> "jwt", key |-> k, accountId |-> a, iat |-> i, exp |-> e]
NoHeader == [present |-> FALSE, token |-> NoToken]
Bearer(t) == [present |-> TRUE, token |-> t]

\* Response bodies, one shape for all of them.
Body(k, b, n, l, t) == [key |-> k, bool |-> b, num |-> n, list |-> l, text |-> t]
BodyBool(k, b) == Body(k, b, 0, {}, "")
BodyNum(k, n) == Body(k, FALSE, n, {}, "")
BodyList(k, l) == Body(k, FALSE, 0, l, "")
BodyText(k, t) == Body(k, FALSE, 0, {}, t)
NoResp == [status |-> 0, body |-> BodyText("", "")]

NoCall == [op |-> "none", idx |-> 0, vals |-> <<>>, rules |-> <<>>]
NoReq ==
    [method |-> "", path |-> "", bodyOk |-> TRUE, headers |-> NoHeader,
     body |-> EmptyObj, query |-> EmptyObj]

Idle ==
    [req |-> NoReq, pc |-> "idle", resp |-> NoResp, sent |-> 0, steps |-> <<>>,
     calls |-> <<>>, pending |-> NoCall, i |-> 0, removedPolicies |-> 0,
     logs |-> {}, accountId |-> Undefined, authTime |-> 0]

\* The load harness (stress_test.js): its clients and what each has done so far.
Clients == 1..CONCURRENT_CLIENTS
EndpointChoices == 0..3
Outcomes == {"response.data", "error.response", "error.message"}
NoClient ==
    [pc |-> "none", i |-> 0, endpointChoice |-> 0, thrown |-> FALSE,
     inflight |-> 0, issued |-> 0, done |-> 0, errors |-> 0]

(***************************************************************************)
(* Joi schemas (app.js 166-181).  Joi.string() refuses the empty string,   *)
(* required() refuses an absent key, an object schema refuses keys it does *)
(* not name, and validation stops at the first error (abortEarly), keys    *)
(* in schema order, then unknown keys, then the or() dependency.           *)
(***************************************************************************)
NoError == [kind |-> "none", key |-> "", index |-> 0]
Err(kind, key, index) == [kind |-> kind, key |-> key, index |-> index]

\* Joi.string() / Joi.string().required() on one value
StringError(v, required) ==
    IF v = Undefined THEN (IF required THEN "any.required" ELSE "none")
    ELSE IF v = "" THEN "string.empty"
    ELSE "none"

\* policySchema on the three keys of `o`; `index` names the array element, 0 for a body
TupleError(o, index) ==
    IF StringError(o.sub, TRUE) # "none" THEN Err(StringError(o.sub, TRUE), "sub", index)
    ELSE IF StringError(o.obj, TRUE) # "none" THEN Err(StringError(o.obj, TRUE), "obj", index)
    ELSE IF StringError(o.act, TRUE) # "none" THEN Err(StringError(o.act, TRUE), "act", index)
    ELSE NoError

policySchemaValidate(b) ==
    LET e == TupleError(b, 0)
        err == IF e.kind # "none" THEN e
               ELSE IF b.fieldIndex.kind # "undefined" THEN Err("object.unknown", "fieldIndex", 0)
               ELSE IF b.policies.present THEN Err("object.unknown", "policies", 0)
               ELSE NoError
    IN [error |-> err, value |-> [sub |-> b.sub, obj |-> b.obj, act |-> b.act]]

\* ItemsError with only the first element of the array validated
ItemsErrorFirstOnly(items) ==
    IF Len(items) = 0 THEN NoError ELSE TupleError(items[1], 1)

\* Joi.array().items(policySchema): the first element that fails, in array order
ItemsError(items) ==
    LET bad == {k \in 1..Len(items) : TupleError(items[k], k).kind # "none"}
    IN IF bad = {} THEN NoError
       ELSE LET k == CHOOSE j \in bad : \A m \in bad : j <= m IN TupleError(items[k], k)

policiesSchemaValidate(b) ==
    LET err == IF ~b.policies.present THEN Err("any.required", "policies", 0)
               ELSE IF ItemsError(b.policies.items).kind # "none" THEN ItemsError(b.policies.items)
               ELSE IF b.fieldIndex.kind # "undefined" THEN Err("object.unknown", "fieldIndex", 0)
               ELSE IF b.sub # Undefined THEN Err("object.unknown", "sub", 0)
               ELSE IF b.obj # Undefined THEN Err("object.unknown", "obj", 0)
               ELSE IF b.act # Undefined THEN Err("object.unknown", "act", 0)
               ELSE NoError
    IN [error |-> err, value |-> [policies |-> b.policies.items]]

\* Joi.number().integer().min(0).default(0)
FieldIndexError(f) ==
    IF f.kind = "nan" THEN "number.base"
    ELSE IF f.kind \in {"int", "numstr"} /\ f.n < 0 THEN "number.min"
    ELSE "none"

filteredPolicySchemaValidate(b) ==
    LET err == IF FieldIndexError(b.fieldIndex) # "none"
                   THEN Err(FieldIndexError(b.fieldIndex), "fieldIndex", 0)
               ELSE IF StringError(b.sub, FALSE) # "none" THEN Err(StringError(b.sub, FALSE), "sub", 0)
               ELSE IF StringError(b.obj, FALSE) # "none" THEN Err(StringError(b.obj, FALSE), "obj", 0)
               ELSE IF StringError(b.act, FALSE) # "none" THEN Err(StringError(b.act, FALSE), "act", 0)
               ELSE IF b.policies.present THEN Err("object.unknown", "policies", 0)
               ELSE IF b.sub = Undefined /\ b.obj = Undefined /\ b.act = Undefined
                   THEN Err("object.missing", "", 0)
               ELSE NoError
    IN [error |-> err,
        value |-> [fieldIndex |-> IF b.fieldIndex.kind \in {"int", "numstr"} THEN b.fieldIndex.n
                                  ELSE 0,
                   sub |-> b.sub, obj |-> b.obj, act |-> b.act]]

\* the filter values collected in the order act, obj, sub
filterValuesReversed(value) ==
    SelectSeq(<<value.act, value.obj, value.sub>>, LAMBDA v : v # Undefined)

\* [sub, obj, act].filter((v) => v !== undefined)   (app.js 310, 336)
filterValues(value) ==
    SelectSeq(<<value.sub, value.obj, value.act>>, LAMBDA v : v # Undefined)

(***************************************************************************)
(* jsonwebtoken.  sign() puts iat = issue time and exp = iat + expiresIn;   *)
(* verify() fails                                                          *)
(* on a token it cannot decode, on a signature made with another key, and  *)
(* once the clock has reached exp (clockTimestamp >= exp).                 *)
(***************************************************************************)
\* generateJWT (stress_test.js 110-121), at clock t, under the client's environment e
generateJWT(e, t) == Jwt(e.key, e.account, t, t + TokenTTL)

\* JwtVerify with the expiry left unchecked (ignoreExpiration)
JwtVerifyIgnoreExp(token, secret, t) ==
    IF token.kind # "jwt" THEN "jwt malformed"
    ELSE IF token.key # secret THEN "invalid signature"
    ELSE "ok"

\* jwt.verify(token, secret) at clock t: "ok" or the error
JwtVerify(token, secret, t) ==
    IF token.kind # "jwt" THEN "jwt malformed"
    ELSE IF token.key # secret THEN "invalid signature"
    ELSE IF t >= token.exp THEN "jwt expired"
    ELSE "ok"

(***************************************************************************)
(* The Decision Engine, as the gateway consumes it: a set of rules, each   *)
(* call atomic.  EngineExec gives the rules after the call and its result. *)
(***************************************************************************)
Rule(t) == <<t.sub, t.obj, t.act>>

\* a rule matches a filter when every non-empty value equals the rule's field at its slot
Matches(rule, idx, vals) ==
    \A k \in 1..Len(vals) :
        vals[k] = "" \/ (idx + k <= 3 /\ rule[idx + k] = vals[k])

Out(p, b, n, l) == [policies |-> p, bool |-> b, num |-> n, list |-> l]

EngineExec(P, c) ==
    CASE c.op = "getPolicy" -> Out(P, FALSE, 0, P)
      [] c.op = "addPolicy" -> Out(P \cup {c.vals}, c.vals \notin P, 0, {})
      [] c.op = "removePolicy" -> Out(P \ {c.vals}, c.vals \in P, 0, {})
      [] c.op = "addPolicies" ->
            LET new == {c.rules[k] : k \in 1..Len(c.rules)} \ P
            IN Out(P \cup new, FALSE, Cardinality(new), new)
      [] c.op = "getFilteredPolicy" ->
            Out(P, FALSE, 0, {r \in P : Matches(r, c.idx, c.vals)})
      [] c.op = "removeFilteredPolicy" ->
            LET hit == {r \in P : Matches(r, c.idx, c.vals)}
            IN Out(P \ hit, hit # {}, Cardinality(hit), hit)
      [] c.op = "enforce" -> Out(P, c.vals \in P, 0, {})
      [] OTHER -> Out(P, FALSE, 0, {})

Call(op, idx, vals, rules) == [op |-> op, idx |-> idx, vals |-> vals, rules |-> rules]


(***************************************************************************)
(* What one step does to a request's record.                               *)
(***************************************************************************)
Step(q, l) == [q EXCEPT !.steps = Append(@, l)]
Log(q, level, msg) == [q EXCEPT !.logs = @ \cup {[level |-> level, msg |-> msg]}]

\* res.status(status).json(body): the chain ends here for this request
Send(q, status, body) ==
    [q EXCEPT !.resp = [status |-> status, body |-> body], !.sent = @ + 1,
              !.steps = Append(@, "respond"), !.pc = "done", !.pending = NoCall]

\* next(): hand the request to the next stage
Next_(q, stage) == [q EXCEPT !.pc = stage]

\* `await enforcer.x(...)`: the call leaves for the engine and the handler is suspended
Await(q, call) ==
    [q EXCEPT !.pc = "await", !.pending = call, !.calls = Append(@, call),
              !.steps = Append(@, "engine")]

\* a catch block that logs the error and goes no further: no next(err), no response
CatchSwallow(q, msg) ==
    [Log(q, "error", msg) EXCEPT !.pc = "done", !.pending = NoCall,
                                 !.steps = Append(@, "next(err)")]

\* the handler's catch block: logger.error(msg, err); next(err)
Catch(q, msg) ==
    [Log(q, "error", msg) EXCEPT !.pc = "error", !.pending = NoCall,
                                 !.steps = Append(@, "next(err)")]

\* the validation branch without its `return`: the 400 is sent and the request goes on to
\* the error middleware all the same
Reject400Fallthrough(q, err) ==
    [Send(Log(Step(q, "validate:fail"), "warn", "Validation error"), 400,
          Body("error", FALSE, err.index, {}, err.key \o ":" \o err.kind))
       EXCEPT !.pc = "error"]

\* if (error) { logger.warn(...); return res.status(400).json({error: error.details[0].message}) }
Reject400(q, err) ==
    Send(Log(Step(q, "validate:fail"), "warn", "Validation error"), 400,
         Body("error", FALSE, err.index, {}, err.key \o ":" \o err.kind))

Message(text) == BodyText("error", text)

(***************************************************************************)
(* Express routing: the handler registered for a method and path.          *)
(***************************************************************************)
Handler(req) ==
    CASE req.method = "GET" /\ req.path = "/policies" -> "getPolicies"
      [] req.method = "POST" /\ req.path = "/policy" -> "postPolicy"
      [] req.method = "POST" /\ req.path = "/policies" -> "postPolicies"
      [] req.method = "DELETE" /\ req.path = "/policy" -> "deletePolicy"
      [] req.method = "DELETE" /\ req.path = "/policies" -> "deletePolicies"
      [] req.method = "GET" /\ req.path = "/policy" -> "getPolicy"
      [] req.method = "DELETE" /\ req.path = "/filtered_policy" -> "deleteFilteredPolicy"
      [] req.method = "POST" /\ req.path = "/enforce" -> "postEnforce"
      [] req.method = "GET" /\ req.path = "/health" -> "health"
      [] OTHER -> "none"

At(r, h) == proc = "listening" /\ reqs[r].pc = "route" /\ Handler(reqs[r].req) = h
Back(r, h) == proc = "listening" /\ reqs[r].pc = "await" /\ Handler(reqs[r].req) = h

(***************************************************************************)
(* Requests the gateway may receive.  The clock of Spec stands at 0, so a  *)
(* token with exp = 0 has expired and one with exp = TokenTTL has not.     *)
(***************************************************************************)
HeaderInputs ==
    {NoHeader, Bearer(NoToken), Bearer(MalformedToken)} \cup
    {Bearer(Jwt(k, a, e - TokenTTL, e)) : k \in Keys, a \in Accounts, e \in {0, TokenTTL}}

BodyInputs(m, p) ==
    CASE m \in {"POST", "DELETE"} /\ p = "/policy" -> TupleBodies
      [] m = "POST" /\ p = "/enforce" -> TupleBodies
      [] m \in {"POST", "DELETE"} /\ p = "/policies" -> BatchBodies
      [] m = "DELETE" /\ p = "/filtered_policy" -> FilterBodies
      [] OTHER -> {EmptyObj}

QueryInputs(m, p) == IF m = "GET" /\ p = "/policy" THEN FilterBodies ELSE {EmptyObj}

RequestInputs ==
    UNION { UNION { { [method |-> m, path |-> p, bodyOk |-> TRUE, headers |-> h,
                       body |-> b, query |-> qy] :
                          h \in HeaderInputs, b \in BodyInputs(m, p), qy \in QueryInputs(m, p) }
                    \cup
                    { [method |-> m, path |-> p, bodyOk |-> FALSE, headers |-> h,
                       body |-> EmptyObj, query |-> EmptyObj] : h \in HeaderInputs }
                  : p \in Paths } : m \in Methods }

(***************************************************************************)
(* Start-up (app.js 141-163, 398-404).                                     *)
(***************************************************************************)
\* app.listen called at module load, not chained on initializeEnforcer()
ListenAtOnce ==
    /\ proc \in {"starting", "initialized"}
    /\ proc' = "listening"
    /\ UNCHANGED <<enforcer, policySet, now, reqs, held, env, xl, clients, stress>>

\* initializeEnforcer: the adapter and the enforcer load, or the process exits
initializeEnforcer ==
    /\ proc = "starting"
    /\ \E ok \in BOOLEAN :
        IF ok
        THEN /\ enforcer' = "ready"
             /\ policySet' \in SUBSET PolicyUniverse
             /\ proc' = "initialized"
        ELSE /\ proc' = "exited"
             /\ enforcer' \in {"undefined", "ready"}   \* loadPolicy may fail after the assignment
             /\ policySet' = policySet
    /\ UNCHANGED <<now, reqs, held, env, xl, clients, stress>>

\* initializeEnforcer().then(() => app.listen(PORT))
Listen ==
    /\ proc = "initialized"
    /\ proc' = "listening"
    /\ UNCHANGED <<enforcer, policySet, now, reqs, held, env, xl, clients, stress>>

(***************************************************************************)
(* The middleware chain.                                                   *)
(***************************************************************************)
Receive(r) ==
    /\ proc = "listening"
    /\ reqs[r].pc = "idle"
    /\ \E rq \in RequestInputs :
        reqs' = [reqs EXCEPT ![r] = [Idle EXCEPT !.req = rq, !.pc = "json"]]
    /\ UNCHANGED <<proc, enforcer, policySet, now, held, env, xl, clients, stress>>

\* the response has been written and the request is over: its slot is free again
Release(r) ==
    /\ reqs[r].pc = "done"
    /\ reqs' = [reqs EXCEPT ![r] = Idle]
    /\ UNCHANGED <<proc, enforcer, policySet, now, held, env, xl, clients, stress>>

\* app.use(express.json()): a body that does not parse goes to the error middleware
BodyParser(r) ==
    /\ proc = "listening"
    /\ reqs[r].pc = "json"
    /\ reqs' = [reqs EXCEPT ![r] =
                  IF @.req.bodyOk THEN Next_(Step(@, "json"), "auth")
                  ELSE [Step(@, "next(err)") EXCEPT !.pc = "error"]]
    /\ UNCHANGED <<proc, enforcer, policySet, now, held, env, xl, clients, stress>>

\* authenticateJWT with the `return` before the first res.status(401) lost: the response
\* is sent and next() runs all the same
authenticateJWTFallthrough(q, t) ==
    LET authHeader == q.req.headers
        token == authHeader.token
    IN IF ~authHeader.present
       THEN [Send(Log(Step(q, "auth:fail"), "warn", "No Authorization header provided."),
                  401, Message("Authorization header missing.")) EXCEPT !.pc = "ready"]
       ELSE IF token.kind = "none"
       THEN Send(Log(Step(q, "auth:fail"), "warn", "No token provided in Authorization header."),
                 401, Message("Token missing."))
       ELSE IF JwtVerify(token, ACCESS_CONTROL_SIGNKEY, t) # "ok"
       THEN Send(Log(Step(q, "auth:fail"), "warn", "JWT verification failed:"),
                 403, Message("Invalid token."))
       ELSE IF token.accountId # AWS_ACCOUNT_ID
       THEN Send(Log(Step(q, "auth:fail"), "warn", "Invalid accountId in JWT:"),
                 403, Message("Unauthorized account ID."))
       ELSE Next_([Step(q, "auth:ok") EXCEPT !.accountId = token.accountId], "ready")

\* authenticateJWT with the accountId comparison left out
authenticateJWTAnyAccount(q, t) ==
    LET authHeader == q.req.headers
        token == authHeader.token
    IN IF ~authHeader.present
       THEN Send(Log(Step(q, "auth:fail"), "warn", "No Authorization header provided."),
                 401, Message("Authorization header missing."))
       ELSE IF token.kind = "none"
       THEN Send(Log(Step(q, "auth:fail"), "warn", "No token provided in Authorization header."),
                 401, Message("Token missing."))
       ELSE IF JwtVerify(token, ACCESS_CONTROL_SIGNKEY, t) # "ok"
       THEN Send(Log(Step(q, "auth:fail"), "warn", "JWT verification failed:"),
                 403, Message("Invalid token."))
       ELSE Next_([Step(q, "auth:ok") EXCEPT !.accountId = token.accountId], "ready")

\* authenticateJWT(req, res, next) at clock t
authenticateJWT(q, t) ==
    LET authHeader == q.req.headers
        token == authHeader.token
    IN IF ~authHeader.present
       THEN Send(Log(Step(q, "auth:fail"), "warn", "No Authorization header provided."),
                 401, Message("Authorization header missing."))
       ELSE IF token.kind = "none"
       THEN Send(Log(Step(q, "auth:fail"), "warn", "No token provided in Authorization header."),
                 401, Message("Token missing."))
       ELSE IF JwtVerify(token, ACCESS_CONTROL_SIGNKEY, t) # "ok"
       THEN Send(Log(Step(q, "auth:fail"), "warn", "JWT verification failed:"),
                 403, Message("Invalid token."))
       ELSE IF token.accountId # AWS_ACCOUNT_ID
       THEN Send(Log(Step(q, "auth:fail"), "warn", "Invalid accountId in JWT:"),
                 403, Message("Unauthorized account ID."))
       ELSE Next_([Step(q, "auth:ok") EXCEPT !.accountId = token.accountId], "ready")

\* the authentication middleware registered after the routes: every request goes on to
\* its handler unauthenticated
AuthGateSkips(r) ==
    /\ proc = "listening"
    /\ reqs[r].pc = "auth"
    /\ reqs' = [reqs EXCEPT ![r] = Next_(Step(@, "auth:exempt"), "ready")]
    /\ UNCHANGED <<proc, enforcer, policySet, now, held, env, xl, clients, stress>>

\* app.use((req, res, next) => { if (req.path === "/health") return next(); authenticateJWT(...) })
AuthGate(r) ==
    /\ proc = "listening"
    /\ reqs[r].pc = "auth"
    /\ reqs' = [reqs EXCEPT ![r] =
                  IF @.req.path = "/health"
                  THEN Next_(Step(@, "auth:exempt"), "ready")
                  ELSE [authenticateJWT(@, now) EXCEPT !.authTime = now]]
    /\ UNCHANGED <<proc, enforcer, policySet, now, held, env, xl, clients, stress>>

\* the middleware that ensures the enforcer is initialized
ReadyGate(r) ==
    /\ proc = "listening"
    /\ reqs[r].pc = "ready"
    /\ reqs' = [reqs EXCEPT ![r] =
                  IF enforcer # "ready"
                  THEN Send(Log(@, "error", "Enforcer not initialized."), 500,
                            Message("Enforcer not initialized."))
                  ELSE Next_(Step(@, "ready"), "route")]
    /\ UNCHANGED <<proc, enforcer, policySet, now, held, env, xl, clients, stress>>

\* app.get("/health")
Health(r) ==
    /\ At(r, "health")
    /\ reqs' = [reqs EXCEPT ![r] = Send(@, 200, BodyText("status", "ok"))]
    /\ UNCHANGED <<proc, enforcer, policySet, now, held, env, xl, clients, stress>>

\* app.use((req, res) => res.status(404)...): no route matched
NotFound(r) ==
    /\ At(r, "none")
    /\ reqs' = [reqs EXCEPT ![r] = Send(@, 404, Message("Route not found."))]
    /\ UNCHANGED <<proc, enforcer, policySet, now, held, env, xl, clients, stress>>

\* app.use((err, req, res, next) => ...): the centralized error handler
ErrorMiddleware(r) ==
    /\ proc = "listening"
    /\ reqs[r].pc = "error"
    /\ reqs' = [reqs EXCEPT ![r] =
                  Send(Log(@, "error", "Unhandled error"), 500, Message("Internal Server Error."))]
    /\ UNCHANGED <<proc, enforcer, policySet, now, held, env, xl, clients, stress>>


(***************************************************************************)
(* Route handlers.  X(r) runs the handler up to its `await`; XResume(r) is *)
(* the engine's answer (or its failure) and the rest of the handler.       *)
(***************************************************************************)
rest == <<proc, enforcer, now, held, env, xl, clients, stress>>

\* app.get("/policies")
GetPolicies(r) ==
    /\ At(r, "getPolicies")
    /\ reqs' = [reqs EXCEPT ![r] = Await(@, Call("getPolicy", 0, <<>>, <<>>))]
    /\ UNCHANGED <<policySet, rest>>

GetPoliciesResume(r) ==
    /\ Back(r, "getPolicies")
    /\ \E ok \in BOOLEAN :
        LET out == EngineExec(policySet, reqs[r].pending)
        IN IF ok
           THEN /\ policySet' = out.policies
                /\ reqs' = [reqs EXCEPT ![r] =
                      Send(Log(@, "info", "All policies retrieved."), 200,
                           BodyList("policies", out.list))]
           ELSE /\ policySet' = policySet
                /\ reqs' = [reqs EXCEPT ![r] = Catch(@, "Failed to retrieve policies:")]
    /\ UNCHANGED rest

\* POST /policy answering {added: true} whatever the engine returned
PostPolicyResumeAlwaysAdded(r) ==
    /\ Back(r, "postPolicy")
    /\ \E ok \in BOOLEAN :
        LET out == EngineExec(policySet, reqs[r].pending)
        IN IF ok
           THEN /\ policySet' = out.policies
                /\ reqs' = [reqs EXCEPT ![r] =
                      Send(Log(@, "info", "Policy added"), 200, BodyBool("added", TRUE))]
           ELSE /\ policySet' = policySet
                /\ reqs' = [reqs EXCEPT ![r] = Catch(@, "Failed to add policy:")]
    /\ UNCHANGED rest

\* app.post("/policy")
PostPolicy(r) ==
    /\ At(r, "postPolicy")
    /\ LET v == policySchemaValidate(reqs[r].req.body)
       IN reqs' = [reqs EXCEPT ![r] =
             IF v.error.kind # "none" THEN Reject400(@, v.error)
             ELSE Await(Step(@, "validate:ok"), Call("addPolicy", 0, Rule(v.value), <<>>))]
    /\ UNCHANGED <<policySet, rest>>

PostPolicyResume(r) ==
    /\ Back(r, "postPolicy")
    /\ \E ok \in BOOLEAN :
        LET out == EngineExec(policySet, reqs[r].pending)
        IN IF ok
           THEN /\ policySet' = out.policies
                /\ reqs' = [reqs EXCEPT ![r] =
                      Send(IF out.bool THEN Log(@, "info", "Policy added")
                                       ELSE Log(@, "warn", "Policy already exists"),
                           200, BodyBool("added", out.bool))]
           ELSE /\ policySet' = policySet
                /\ reqs' = [reqs EXCEPT ![r] = Catch(@, "Failed to add policy:")]
    /\ UNCHANGED rest

\* app.post("/policies")
PostPolicies(r) ==
    /\ At(r, "postPolicies")
    /\ LET v == policiesSchemaValidate(reqs[r].req.body)
           policies == v.value.policies
       IN reqs' = [reqs EXCEPT ![r] =
             IF v.error.kind # "none" THEN Reject400(@, v.error)
             ELSE Await(Step(@, "validate:ok"),
                        Call("addPolicies", 0, <<>>,
                             [k \in 1..Len(policies) |-> Rule(policies[k])]))]
    /\ UNCHANGED <<policySet, rest>>

PostPoliciesResume(r) ==
    /\ Back(r, "postPolicies")
    /\ \E ok \in BOOLEAN :
        LET out == EngineExec(policySet, reqs[r].pending)
        IN IF ok
           THEN /\ policySet' = out.policies
                /\ reqs' = [reqs EXCEPT ![r] =
                      Send(IF out.num > 0 THEN Log(@, "info", "Policies added")
                                          ELSE Log(@, "warn", "No new policies were added."),
                           200, BodyNum("added", out.num))]
           ELSE /\ policySet' = policySet
                /\ reqs' = [reqs EXCEPT ![r] = Catch(@, "Failed to add policies:")]
    /\ UNCHANGED rest

\* app.delete("/policy")
DeletePolicy(r) ==
    /\ At(r, "deletePolicy")
    /\ LET v == policySchemaValidate(reqs[r].req.body)
       IN reqs' = [reqs EXCEPT ![r] =
             IF v.error.kind # "none" THEN Reject400(@, v.error)
             ELSE Await(Step(@, "validate:ok"), Call("removePolicy", 0, Rule(v.value), <<>>))]
    /\ UNCHANGED <<policySet, rest>>

DeletePolicyResume(r) ==
    /\ Back(r, "deletePolicy")
    /\ \E ok \in BOOLEAN :
        LET out == EngineExec(policySet, reqs[r].pending)
        IN IF ok
           THEN /\ policySet' = out.policies
                /\ reqs' = [reqs EXCEPT ![r] =
                      Send(IF out.bool THEN Log(@, "info", "Policy removed")
                                       ELSE Log(@, "warn", "Policy not found for removal"),
                           200, BodyBool("removed", out.bool))]
           ELSE /\ policySet' = policySet
                /\ reqs' = [reqs EXCEPT ![r] = Catch(@, "Failed to remove policy:")]
    /\ UNCHANGED rest

\* app.delete("/policies"): validation, then the for-loop up to its first await
DeletePolicies(r) ==
    /\ At(r, "deletePolicies")
    /\ LET v == policiesSchemaValidate(reqs[r].req.body)
           policies == v.value.policies
       IN reqs' = [reqs EXCEPT ![r] =
             IF v.error.kind # "none" THEN Reject400(@, v.error)
             ELSE IF Len(policies) = 0
             THEN Send(Step(@, "validate:ok"), 200, BodyNum("removed", 0))
             ELSE Await([Step(@, "validate:ok") EXCEPT !.i = 1, !.removedPolicies = 0],
                        Call("removePolicy", 0, Rule(policies[1]), <<>>))]
    /\ UNCHANGED <<policySet, rest>>

\* one removePolicy answers; the loop goes on to the next element or the handler responds
DeletePoliciesResume(r) ==
    /\ Back(r, "deletePolicies")
    /\ \E ok \in BOOLEAN :
        LET out == EngineExec(policySet, reqs[r].pending)
            policies == reqs[r].req.body.policies.items
            i == reqs[r].i
            n == reqs[r].removedPolicies + (IF out.bool THEN 1 ELSE 0)
        IN IF ok
           THEN /\ policySet' = out.policies
                /\ reqs' = [reqs EXCEPT ![r] =
                      LET q == [(IF out.bool THEN Log(@, "info", "Policy removed")
                                             ELSE Log(@, "warn", "Policy not found for removal"))
                                  EXCEPT !.removedPolicies = n]
                      IN IF i < Len(policies)
                         THEN Await([q EXCEPT !.i = i + 1],
                                    Call("removePolicy", 0, Rule(policies[i + 1]), <<>>))
                         ELSE Send(q, 200, BodyNum("removed", n))]
           ELSE /\ policySet' = policySet
                /\ reqs' = [reqs EXCEPT ![r] = Catch(@, "Failed to remove policies:")]
    /\ UNCHANGED rest

\* app.get("/policy"): the filter arrives in the query string
GetPolicy(r) ==
    /\ At(r, "getPolicy")
    /\ LET v == filteredPolicySchemaValidate(reqs[r].req.query)
       IN reqs' = [reqs EXCEPT ![r] =
             IF v.error.kind # "none" THEN Reject400(@, v.error)
             ELSE Await(Step(@, "validate:ok"),
                        Call("getFilteredPolicy", v.value.fieldIndex, filterValues(v.value), <<>>))]
    /\ UNCHANGED <<policySet, rest>>

GetPolicyResume(r) ==
    /\ Back(r, "getPolicy")
    /\ \E ok \in BOOLEAN :
        LET out == EngineExec(policySet, reqs[r].pending)
        IN IF ok
           THEN /\ policySet' = out.policies
                /\ reqs' = [reqs EXCEPT ![r] =
                      Send(Log(@, "info", "Filtered policies retrieved"), 200,
                           BodyList("policies", out.list))]
           ELSE /\ policySet' = policySet
                /\ reqs' = [reqs EXCEPT ![r] = Catch(@, "Failed to get filtered policy:")]
    /\ UNCHANGED rest

\* app.delete("/filtered_policy"): the filter arrives in the body
DeleteFilteredPolicy(r) ==
    /\ At(r, "deleteFilteredPolicy")
    /\ LET v == filteredPolicySchemaValidate(reqs[r].req.body)
       IN reqs' = [reqs EXCEPT ![r] =
             IF v.error.kind # "none" THEN Reject400(@, v.error)
             ELSE Await(Step(@, "validate:ok"),
                        Call("removeFilteredPolicy", v.value.fieldIndex, filterValues(v.value), <<>>))]
    /\ UNCHANGED <<policySet, rest>>

DeleteFilteredPolicyResume(r) ==
    /\ Back(r, "deleteFilteredPolicy")
    /\ \E ok \in BOOLEAN :
        LET out == EngineExec(policySet, reqs[r].pending)
        IN IF ok
           THEN /\ policySet' = out.policies
                /\ reqs' = [reqs EXCEPT ![r] =
                      Send(Log(@, "info", "Filtered policy removed"), 200,
                           Body("removed", out.bool, out.num, {}, ""))]
           ELSE /\ policySet' = policySet
                /\ reqs' = [reqs EXCEPT ![r] = Catch(@, "Failed to remove filtered policy:")]
    /\ UNCHANGED rest

\* POST /enforce calling addPolicy where the handler calls enforce
PostEnforceAdds(r) ==
    /\ At(r, "postEnforce")
    /\ LET v == policySchemaValidate(reqs[r].req.body)
       IN reqs' = [reqs EXCEPT ![r] =
             IF v.error.kind # "none" THEN Reject400(@, v.error)
             ELSE Await(Step(@, "validate:ok"), Call("addPolicy", 0, Rule(v.value), <<>>))]
    /\ UNCHANGED <<policySet, rest>>

\* app.post("/enforce")
PostEnforce(r) ==
    /\ At(r, "postEnforce")
    /\ LET v == policySchemaValidate(reqs[r].req.body)
       IN reqs' = [reqs EXCEPT ![r] =
             IF v.error.kind # "none" THEN Reject400(@, v.error)
             ELSE Await(Step(@, "validate:ok"), Call("enforce", 0, Rule(v.value), <<>>))]
    /\ UNCHANGED <<policySet, rest>>

\* POST /enforce keeping the tuple of the request in a variable shared by all requests:
\* the answer is the decision for the tuple of the request that has waited longest
PostEnforceResumeShared(r) ==
    /\ Back(r, "postEnforce")
    /\ \E ok \in BOOLEAN :
        LET s == CHOOSE s \in DOMAIN reqs :
                     /\ reqs[s].pc = "await"
                     /\ \A t \in DOMAIN reqs : reqs[t].pc = "await" => s <= t
            out == EngineExec(policySet, reqs[s].pending)
        IN IF ok
           THEN /\ policySet' = out.policies
                /\ reqs' = [reqs EXCEPT ![r] =
                      Send(Log(@, "info", "Policy enforced"), 200, BodyBool("allowed", out.bool))]
           ELSE /\ policySet' = policySet
                /\ reqs' = [reqs EXCEPT ![r] = Catch(@, "Failed to enforce policy:")]
    /\ UNCHANGED rest

PostEnforceResume(r) ==
    /\ Back(r, "postEnforce")
    /\ \E ok \in BOOLEAN :
        LET out == EngineExec(policySet, reqs[r].pending)
        IN IF ok
           THEN /\ policySet' = out.policies
                /\ reqs' = [reqs EXCEPT ![r] =
                      Send(Log(@, "info", "Policy enforced"), 200, BodyBool("allowed", out.bool))]
           ELSE /\ policySet' = policySet
                /\ reqs' = [reqs EXCEPT ![r] = Catch(@, "Failed to enforce policy:")]
    /\ UNCHANGED rest

(***************************************************************************)
(* The gateway serving requests.                                           *)
(***************************************************************************)
Init ==
    /\ proc = "starting"
    /\ enforcer = "undefined"
    /\ policySet = {}
    /\ now = 0
    /\ reqs = [r \in Slots |-> Idle]
    /\ held = NoToken
    /\ env = [account |-> AWS_ACCOUNT_ID, key |-> ACCESS_CONTROL_SIGNKEY]
    /\ xl = [fieldIndex |-> 0, fieldValues |-> <<>>, get |-> EmptyObj, remove |-> EmptyObj,
             did |-> {}]
    /\ clients = [c \in Clients |-> NoClient]
    /\ stress = "idle"

Chain(r) ==
    \/ BodyParser(r)
    \/ AuthGate(r)
    \/ ReadyGate(r)
    \/ ErrorMiddleware(r)

Routes(r) ==
    \/ Health(r)
    \/ NotFound(r)
    \/ GetPolicies(r) \/ GetPoliciesResume(r)
    \/ PostPolicy(r) \/ PostPolicyResume(r)
    \/ PostPolicies(r) \/ PostPoliciesResume(r)
    \/ DeletePolicy(r) \/ DeletePolicyResume(r)
    \/ DeletePolicies(r) \/ DeletePoliciesResume(r)
    \/ GetPolicy(r) \/ GetPolicyResume(r)
    \/ DeleteFilteredPolicy(r) \/ DeleteFilteredPolicyResume(r)
    \/ PostEnforce(r) \/ PostEnforceResume(r)

Next ==
    \/ initializeEnforcer
    \/ Listen
    \/ \E r \in Slots : Receive(r) \/ Release(r) \/ Chain(r) \/ Routes(r)

Spec == Init /\ [][Next]_vars


(***************************************************************************)
(* Tokens over time: a client call carries a token made by generateJWT at  *)
(* the moment of the call, the call reaches the gateway some time later,   *)
(* and the clock runs on meanwhile.                                        *)
(***************************************************************************)
ValidTuple == [EmptyObj EXCEPT !.sub = "alice", !.obj = "doc1", !.act = "read"]

Tick ==
    /\ now < MaxClock
    /\ now' = now + 1
    /\ UNCHANGED <<proc, enforcer, policySet, reqs, held, env, xl, clients, stress>>

\* casbinClient.enforce up to its await: the token is generated and the POST leaves
ClientEnforce ==
    /\ held = NoToken
    /\ \A r \in Slots : reqs[r].pc = "idle"
    /\ held' = generateJWT(env, now)
    /\ UNCHANGED <<proc, enforcer, policySet, now, reqs, env, xl, clients, stress>>

\* the POST /enforce of the client reaches the gateway
Arrive(r) ==
    /\ proc = "listening"
    /\ held # NoToken
    /\ reqs[r].pc = "idle"
    /\ reqs' = [reqs EXCEPT ![r] =
                  [Idle EXCEPT !.pc = "json",
                               !.req = [method |-> "POST", path |-> "/enforce", bodyOk |-> TRUE,
                                        headers |-> Bearer(held), body |-> ValidTuple,
                                        query |-> EmptyObj]]]
    /\ held' = NoToken
    /\ UNCHANGED <<proc, enforcer, policySet, now, env, xl, clients, stress>>

InitToken ==
    /\ proc = "listening"
    /\ enforcer = "ready"
    /\ policySet = PolicyUniverse
    /\ now = 0
    /\ reqs = [r \in Slots |-> Idle]
    /\ held = NoToken
    /\ env \in [account : Accounts, key : Keys]
    /\ xl = [fieldIndex |-> 0, fieldValues |-> <<>>, get |-> EmptyObj, remove |-> EmptyObj,
             did |-> {}]
    /\ clients = [c \in Clients |-> NoClient]
    /\ stress = "idle"

NextToken ==
    \/ Tick
    \/ ClientEnforce
    \/ \E r \in Slots :
          \/ Arrive(r) \/ Release(r)
          \/ BodyParser(r) \/ AuthGate(r) \/ ReadyGate(r) \/ ErrorMiddleware(r)
          \/ PostEnforce(r) \/ PostEnforceResume(r)

SpecToken == InitToken /\ [][NextToken]_vars

(***************************************************************************)
(* The client's filter translation (stress_test.js 58-96): the values      *)
(* given after fieldIndex are put under the field names from slot          *)
(* fieldIndex on.                                                          *)
(***************************************************************************)
RECURSIVE getLoop(_, _, _, _)
\* for (let i = 0; i < fieldValues.length; i++) { ... params[fieldName] = fieldValues[i] }
getLoop(params, fieldIndex, fieldValues, i) ==
    IF i >= Len(fieldValues) THEN params
    ELSE LET fieldName == IF fieldIndex + i \in 0..2 THEN fieldNames[fieldIndex + i + 1]
                          ELSE Undefined
         IN getLoop(IF fieldName # Undefined
                    THEN [params EXCEPT ![fieldName] = fieldValues[i + 1]]
                    ELSE params,
                    fieldIndex, fieldValues, i + 1)

\* getFilteredPolicyParams with the names taken from slot 0 on: fieldNames[i] for
\* fieldNames[fieldIndex + i]
getFilteredPolicyParamsNoOffset(fieldIndex, fieldValues) ==
    getLoop([EmptyObj EXCEPT !.fieldIndex = FIInt(fieldIndex)], 0, fieldValues, 0)

\* the `params` casbinClient.getFilteredPolicy sends
getFilteredPolicyParams(fieldIndex, fieldValues) ==
    getLoop([EmptyObj EXCEPT !.fieldIndex = FIInt(fieldIndex)], fieldIndex, fieldValues, 0)

RECURSIVE removeLoop(_, _, _, _)
\* for (let i = 0; i < fieldValues.length; i++) { ... data[fieldName] = fieldValues[i] }
removeLoop(data, fieldIndex, fieldValues, i) ==
    IF i >= Len(fieldValues) THEN data
    ELSE LET fieldName == IF fieldIndex + i \in 0..2 THEN fieldNames[fieldIndex + i + 1]
                          ELSE Undefined
         IN removeLoop(IF fieldName # Undefined
                       THEN [data EXCEPT ![fieldName] = fieldValues[i + 1]]
                       ELSE data,
                       fieldIndex, fieldValues, i + 1)

\* the `data` casbinClient.removeFilteredPolicy sends
removeFilteredPolicyData(fieldIndex, fieldValues) ==
    removeLoop([EmptyObj EXCEPT !.fieldIndex = FIInt(fieldIndex)], fieldIndex, fieldValues, 0)

ClientGetFilteredPolicy ==
    /\ "get" \notin xl.did
    /\ xl' = [xl EXCEPT !.get = getFilteredPolicyParams(xl.fieldIndex, xl.fieldValues),
                        !.did = @ \cup {"get"}]
    /\ UNCHANGED <<proc, enforcer, policySet, now, reqs, held, env, clients, stress>>

ClientRemoveFilteredPolicy ==
    /\ "remove" \notin xl.did
    /\ xl' = [xl EXCEPT !.remove = removeFilteredPolicyData(xl.fieldIndex, xl.fieldValues),
                        !.did = @ \cup {"remove"}]
    /\ UNCHANGED <<proc, enforcer, policySet, now, reqs, held, env, clients, stress>>

InitTranslate ==
    /\ proc = "starting"
    /\ enforcer = "undefined"
    /\ policySet = {}
    /\ now = 0
    /\ reqs = [r \in Slots |-> Idle]
    /\ held = NoToken
    /\ env = [account |-> AWS_ACCOUNT_ID, key |-> ACCESS_CONTROL_SIGNKEY]
    /\ \E f \in 0..MaxClientIndex, vs \in SeqsUpTo(ClientVals, MaxValues) :
          xl = [fieldIndex |-> f, fieldValues |-> vs, get |-> EmptyObj, remove |-> EmptyObj,
                did |-> {}]
    /\ clients = [c \in Clients |-> NoClient]
    /\ stress = "idle"

NextTranslate == ClientGetFilteredPolicy \/ ClientRemoveFilteredPolicy

SpecTranslate == InitTranslate /\ [][NextTranslate]_vars


(***************************************************************************)
(* The load harness (stress_test.js 110-218).  The gateway is whatever     *)
(* answers: a call ends with a response, an error response or a transport  *)
(* error.  A client is suspended at the one `await` of its loop body.      *)
(***************************************************************************)
\* jwt.sign throws when process.env.ACCESS_CONTROL_SIGNKEY is not set
SignThrows(e) == e.key = Undefined

\* the loop of clientBehavior running two iterations on without awaiting the first call
IterateNoAwait(k, choice, e) ==
    IF k.i < REQUESTS_PER_CLIENT
    THEN [k EXCEPT !.pc = "await", !.endpointChoice = choice, !.issued = @ + 2,
                   !.thrown = SignThrows(e),
                   !.inflight = @ + (IF SignThrows(e) THEN 0 ELSE 2)]
    ELSE [k EXCEPT !.pc = "finished"]

\* the loop of clientBehavior from its test `i < REQUESTS_PER_CLIENT` to the await of the
\* body: the endpoint is chosen and the casbinClient method called, which makes the token
\* (generateJWT) and sends the request, or throws making the token; or the loop is over
Iterate(k, choice, e) ==
    IF k.i < REQUESTS_PER_CLIENT
    THEN [k EXCEPT !.pc = "await", !.endpointChoice = choice, !.issued = @ + 1,
                   !.thrown = SignThrows(e),
                   !.inflight = @ + (IF SignThrows(e) THEN 0 ELSE 1)]
    ELSE [k EXCEPT !.pc = "finished"]

\* the awaited call settles: console.log on a response, the catch block's console.error on
\* an error response, a transport error or a thrown generateJWT; then i++
Settle(k, outcome) ==
    [k EXCEPT !.inflight = IF k.thrown THEN @ ELSE @ - 1,
              !.thrown = FALSE,
              !.endpointChoice = 0,
              !.done = @ + 1,
              !.errors = @ + (IF outcome = "response.data" THEN 0 ELSE 1),
              !.i = @ + 1]

\* the outcomes the awaited call of k can have
OutcomesOf(k) == IF k.thrown THEN {"error.message"} ELSE Outcomes

\* the endpoints k can draw when its call has settled: none when that was its last iteration
ChoicesOf(k) == IF k.i + 1 < REQUESTS_PER_CLIENT THEN EndpointChoices ELSE {0}

\* clientBehavior with no try/catch round the call: an error rejects the client's promise
clientBehaviorNoCatch(c) ==
    /\ clients[c].pc = "await"
    /\ \E outcome \in OutcomesOf(clients[c]), choice \in ChoicesOf(clients[c]) :
          clients' = [clients EXCEPT ![c] =
                        IF outcome = "response.data"
                        THEN Iterate(Settle(@, outcome), choice, env)
                        ELSE [Settle(@, outcome) EXCEPT !.pc = "rejected", !.errors = 0]]
    /\ UNCHANGED <<proc, enforcer, policySet, now, reqs, held, env, xl, stress>>

\* clientBehavior leaving its loop at the first error
clientBehaviorBreaks(c) ==
    /\ clients[c].pc = "await"
    /\ \E outcome \in OutcomesOf(clients[c]), choice \in ChoicesOf(clients[c]) :
          clients' = [clients EXCEPT ![c] =
                        IF outcome = "response.data"
                        THEN Iterate(Settle(@, outcome), choice, env)
                        ELSE [Settle(@, outcome) EXCEPT !.pc = "finished"]]
    /\ UNCHANGED <<proc, enforcer, policySet, now, reqs, held, env, xl, stress>>

\* clientBehavior(clientId) resumed at its await: the call of iteration i has completed or
\* failed, the client logs it and goes round the loop
clientBehavior(c) ==
    /\ clients[c].pc = "await"
    /\ \E outcome \in OutcomesOf(clients[c]), choice \in ChoicesOf(clients[c]) :
          clients' = [clients EXCEPT ![c] = Iterate(Settle(@, outcome), choice, env)]
    /\ UNCHANGED <<proc, enforcer, policySet, now, reqs, held, env, xl, stress>>

\* startStressTest up to `await Promise.all(clientPromises)`: each clientBehavior(i + 1) is
\* called in turn and runs to its first await before the next is called
startStressTest ==
    /\ stress = "idle"
    /\ \E choice \in [Clients -> EndpointChoices] :
          clients' = [c \in Clients |-> Iterate(clients[c], choice[c], env)]
    /\ stress' = "awaiting"
    /\ UNCHANGED <<proc, enforcer, policySet, now, reqs, held, env, xl>>

\* startStressTest going on as soon as one client's promise has resolved
PromiseRace ==
    /\ stress = "awaiting"
    /\ \E c \in Clients : clients[c].pc = "finished"
    /\ stress' = "completed"
    /\ UNCHANGED <<proc, enforcer, policySet, now, reqs, held, env, xl, clients>>

\* Promise.all(clientPromises) resolves and startStressTest logs "Stress test completed"
PromiseAll ==
    /\ stress = "awaiting"
    /\ \A c \in Clients : clients[c].pc = "finished"
    /\ stress' = "completed"
    /\ UNCHANGED <<proc, enforcer, policySet, now, reqs, held, env, xl, clients>>

InitHarness ==
    /\ proc = "listening"
    /\ enforcer = "ready"
    /\ policySet = PolicyUniverse
    /\ now = 0
    /\ reqs = [r \in Slots |-> Idle]
    /\ held = NoToken
    /\ env \in [account : {AWS_ACCOUNT_ID}, key : {ACCESS_CONTROL_SIGNKEY, Undefined}]
    /\ xl = [fieldIndex |-> 0, fieldValues |-> <<>>, get |-> EmptyObj, remove |-> EmptyObj,
             did |-> {}]
    /\ clients = [c \in Clients |-> NoClient]
    /\ stress = "idle"

NextHarness ==
    \/ startStressTest
    \/ \E c \in Clients : clientBehavior(c)
    \/ PromiseAll

SpecHarness == InitHarness /\ [][NextHarness]_vars

\* the harness does not stop while a step of it is possible: a call that was issued is
\* answered or fails in the end, and the event loop runs a continuation that is ready
FairHarness == InitHarness /\ [][NextHarness]_vars /\ WF_vars(NextHarness)


(***************************************************************************)
(* The gateway serving several POST /enforce requests at once (app.js      *)
(* 354-369): each request has its own slot, the steps of the slots         *)
(* interleave freely, and the requests in the gateway name pairwise        *)
(* different tuples.  An answered request stays in its slot until it is    *)
(* released, and no request arrives while one is waiting for release, so   *)
(* requests found answered together were in the gateway together.          *)
(***************************************************************************)
ConcSlots == 1..MaxInFlight

EnforceBodies ==
    { [EmptyObj EXCEPT !.sub = "alice", !.obj = "doc1", !.act = "read"],
      [EmptyObj EXCEPT !.sub = "bob", !.obj = "doc1", !.act = "read"],
      [EmptyObj EXCEPT !.sub = "bob", !.obj = "doc1", !.act = "write"] }

\* a POST /enforce with a trusted token arrives
ArriveEnforce(r) ==
    /\ proc = "listening"
    /\ reqs[r].pc = "idle"
    /\ \A s \in ConcSlots : reqs[s].pc # "done"
    /\ \E b \in EnforceBodies :
          /\ \A s \in ConcSlots : reqs[s].pc # "idle" => reqs[s].req.body # b
          /\ reqs' = [reqs EXCEPT ![r] =
                [Idle EXCEPT !.pc = "json",
                             !.req = [method |-> "POST", path |-> "/enforce", bodyOk |-> TRUE,
                                      headers |-> Bearer(generateJWT(env, now)), body |-> b,
                                      query |-> EmptyObj]]]
    /\ UNCHANGED <<proc, enforcer, policySet, now, held, env, xl, clients, stress>>

InitConc ==
    /\ proc = "listening"
    /\ enforcer = "ready"
    /\ policySet \in SUBSET {Rule(b) : b \in EnforceBodies}
    /\ now = 0
    /\ reqs = [r \in ConcSlots |-> Idle]
    /\ held = NoToken
    /\ env = [account |-> AWS_ACCOUNT_ID, key |-> ACCESS_CONTROL_SIGNKEY]
    /\ xl = [fieldIndex |-> 0, fieldValues |-> <<>>, get |-> EmptyObj, remove |-> EmptyObj,
             did |-> {}]
    /\ clients = [c \in Clients |-> NoClient]
    /\ stress = "idle"

NextConc ==
    \E r \in ConcSlots :
        \/ ArriveEnforce(r) \/ Release(r)
        \/ BodyParser(r) \/ AuthGate(r) \/ ReadyGate(r) \/ ErrorMiddleware(r)
        \/ PostEnforce(r) \/ PostEnforceResume(r)

SpecConc == InitConc /\ [][NextConc]_vars


(***************************************************************************)
(* Client and gateway together on the filter operations: the client        *)
(* translates (fieldIndex, fieldValues) into named fields and sends them,  *)
(* in the query string for getFilteredPolicy and in the JSON body for      *)
(* removeFilteredPolicy, and the gateway validates them and calls the      *)
(* engine.                                                                 *)
(***************************************************************************)
\* axios writes `params` into the query string and express reads it back: the fields that
\* are set arrive as strings, fieldIndex as the digits of the number
QueryString(params) ==
    [params EXCEPT !.fieldIndex = IF @.kind = "int" THEN FINumStr(@.n) ELSE @]

\* casbinClient.getFilteredPolicy after its loop: the token is made and the GET leaves
SendGetFilteredPolicy(r) ==
    /\ proc = "listening"
    /\ "get" \in xl.did
    /\ reqs[r].pc = "idle"
    /\ reqs' = [reqs EXCEPT ![r] =
          [Idle EXCEPT !.pc = "json",
                       !.req = [method |-> "GET", path |-> "/policy", bodyOk |-> TRUE,
                                headers |-> Bearer(generateJWT(env, now)), body |-> EmptyObj,
                                query |-> QueryString(xl.get)]]]
    /\ UNCHANGED <<proc, enforcer, policySet, now, held, env, xl, clients, stress>>

\* casbinClient.removeFilteredPolicy after its loop: the token is made and the DELETE leaves
SendRemoveFilteredPolicy(r) ==
    /\ proc = "listening"
    /\ "remove" \in xl.did
    /\ reqs[r].pc = "idle"
    /\ reqs' = [reqs EXCEPT ![r] =
          [Idle EXCEPT !.pc = "json",
                       !.req = [method |-> "DELETE", path |-> "/filtered_policy",
                                bodyOk |-> TRUE, headers |-> Bearer(generateJWT(env, now)),
                                body |-> xl.remove, query |-> EmptyObj]]]
    /\ UNCHANGED <<proc, enforcer, policySet, now, held, env, xl, clients, stress>>

InitRound ==
    /\ proc = "listening"
    /\ enforcer = "ready"
    /\ policySet = PolicyUniverse
    /\ now = 0
    /\ reqs = [r \in Slots |-> Idle]
    /\ held = NoToken
    /\ env = [account |-> AWS_ACCOUNT_ID, key |-> ACCESS_CONTROL_SIGNKEY]
    /\ \E f \in 0..MaxClientIndex, vs \in SeqsUpTo(ClientVals, MaxValues) :
          xl = [fieldIndex |-> f, fieldValues |-> vs, get |-> EmptyObj, remove |-> EmptyObj,
                did |-> {}]
    /\ clients = [c \in Clients |-> NoClient]
    /\ stress = "idle"

NextRound ==
    \/ ClientGetFilteredPolicy
    \/ ClientRemoveFilteredPolicy
    \/ \E r \in Slots :
          \/ SendGetFilteredPolicy(r) \/ SendRemoveFilteredPolicy(r) \/ Release(r)
          \/ BodyParser(r) \/ AuthGate(r) \/ ReadyGate(r) \/ ErrorMiddleware(r)
          \/ GetPolicy(r) \/ GetPolicyResume(r)
          \/ DeleteFilteredPolicy(r) \/ DeleteFilteredPolicyResume(r)

SpecRound == InitRound /\ [][NextRound]_vars


(***************************************************************************)
(* Properties.                                                             *)
(***************************************************************************)
Has(q, l) == \E k \in 1..Len(q.steps) : q.steps[k] = l
First(q, l) == CHOOSE k \in 1..Len(q.steps) : q.steps[k] = l /\ \A j \in 1..(k - 1) : q.steps[j] # l
Validated(q) == Has(q, "validate:ok") \/ Has(q, "validate:fail")
Authenticated(q) == Has(q, "auth:ok") \/ Has(q, "auth:fail")
Token(q) == q.req.headers.token

\* the token of q verifies at the moment the gateway looked at it
Verifies(q) ==
    /\ q.req.headers.present
    /\ Token(q).kind = "jwt"
    /\ Token(q).key = ACCESS_CONTROL_SIGNKEY
    /\ q.authTime < Token(q).exp

\* the payload of q satisfies the schema of its route
SchemaOk(q) ==
    LET h == Handler(q.req)
    IN CASE h \in {"postPolicy", "deletePolicy", "postEnforce"} ->
                 policySchemaValidate(q.req.body).error = NoError
         [] h \in {"postPolicies", "deletePolicies"} ->
                 policiesSchemaValidate(q.req.body).error = NoError
         [] h = "getPolicy" -> filteredPolicySchemaValidate(q.req.query).error = NoError
         [] h = "deleteFilteredPolicy" -> filteredPolicySchemaValidate(q.req.body).error = NoError
         [] OTHER -> TRUE

\* C1: a request answered 400, 401 or 403 has made no Decision Engine call, and a request
\* that has made one carries a token that verifies with the trusted accountId and a payload
\* that satisfies its route's schema, both checked before the first call left.
InvC1 ==
    \A r \in Slots :
        LET q == reqs[r]
        IN /\ q.resp.status \in {400, 401, 403} => q.calls = <<>>
           /\ q.calls # <<>> =>
                /\ Verifies(q) /\ Token(q).accountId = AWS_ACCOUNT_ID
                /\ SchemaOk(q)
                /\ Has(q, "auth:ok") /\ ~Has(q, "auth:fail") /\ ~Has(q, "validate:fail")
                /\ First(q, "auth:ok") < First(q, "engine")
                /\ Handler(q.req) # "getPolicies" =>
                      Has(q, "validate:ok") /\ First(q, "validate:ok") < First(q, "engine")

WitC1 ==
    \E r \in Slots :
        /\ Handler(reqs[r].req) = "postPolicy"
        /\ reqs[r].resp.status = 400
        /\ reqs[r].calls = <<>>

\* C2: a finished request that carried no Authorization header (and a body that parsed, so
\* that it reached the authentication gate) was answered 200 {status: "ok"} if it was
\* GET /health, and 401 if it was any other method and path.
ClaimC2 ==
    \A r \in Slots :
        LET q == reqs[r]
        IN (q.pc = "done" /\ ~q.req.headers.present /\ q.req.bodyOk) =>
              IF q.req.method = "GET" /\ q.req.path = "/health"
              THEN q.resp = [status |-> 200, body |-> BodyText("status", "ok")]
              ELSE q.resp.status = 401

\* C3: a request that authenticateJWT refused was answered 401 when its token was absent,
\* malformed, wrongly signed or expired, and 403 only when the token verified and named
\* another accountId.
ClaimC3 ==
    \A r \in Slots :
        LET q == reqs[r]
        IN Has(q, "auth:fail") =>
              /\ ~Verifies(q) => q.resp.status = 401
              /\ q.resp.status = 403 => Verifies(q) /\ Token(q).accountId # AWS_ACCOUNT_ID

\* C4: once authenticateJWT has seen a token that verifies, a token naming another accountId
\* has been answered 403 with nothing after it (no next(), no req.accountId), and a token
\* naming the trusted accountId has passed with req.accountId set to it.
InvC4 ==
    \A r \in Slots :
        LET q == reqs[r]
        IN (Authenticated(q) /\ Verifies(q)) =>
              IF Token(q).accountId # AWS_ACCOUNT_ID
              THEN /\ q.resp = [status |-> 403, body |-> Message("Unauthorized account ID.")]
                   /\ q.pc = "done" /\ q.sent = 1
                   /\ q.steps[Len(q.steps)] = "respond"
                   /\ q.steps[Len(q.steps) - 1] = "auth:fail"
                   /\ ~Has(q, "auth:ok")
                   /\ q.accountId = Undefined
                   /\ q.calls = <<>>
              ELSE /\ Has(q, "auth:ok") /\ ~Has(q, "auth:fail")
                   /\ q.accountId = AWS_ACCOUNT_ID
                   /\ q.resp.status \notin {401, 403}

WitC4 ==
    \E r \in Slots :
        /\ Verifies(reqs[r])
        /\ Token(reqs[r]).accountId # AWS_ACCOUNT_ID
        /\ reqs[r].resp.status = 403

\* the client signs with the gateway's key for the gateway's trusted account
TrustedEnv == env.account = AWS_ACCOUNT_ID /\ env.key = ACCESS_CONTROL_SIGNKEY

StateC5 ==
    \A r \in Slots :
        LET q == reqs[r]
        IN (TrustedEnv /\ Authenticated(q)) =>
              /\ Token(q).exp = Token(q).iat + 60
              /\ Token(q).iat <= q.authTime
              /\ q.authTime < Token(q).exp => Has(q, "auth:ok") /\ q.accountId = AWS_ACCOUNT_ID
              /\ q.authTime > Token(q).exp => ~Has(q, "auth:ok") /\ q.resp.status = 403

IssueC5 ==
    (held = NoToken /\ held' # NoToken) =>
        /\ held'.iat = now
        /\ held'.exp = now + 60
        /\ held'.accountId = env.account

\* C5: a token the client generates at clock t for the trusted account under the gateway's
\* key carries exp = t + 60 (IssueC5); the gateway accepts it whenever it verifies it before
\* exp and refuses it (403) whenever it verifies it after exp (StateC5).
ThmC5 == [](StateC5) /\ [][IssueC5]_vars

WitC5 ==
    \E r \in Slots :
        /\ TrustedEnv
        /\ reqs[r].authTime > Token(reqs[r]).exp
        /\ reqs[r].resp.status = 403

\* C6: after the client has translated (fieldIndex, fieldValues), each of sub, obj, act holds
\* the value whose position maps to its slot (slot k holds fieldValues[k - fieldIndex]) and is
\* absent when no value maps to it; values mapping past act are dropped; and the params of
\* getFilteredPolicy and the data of removeFilteredPolicy are the same.
Expected(k) ==
    LET i == k - xl.fieldIndex
    IN IF i \in 1..Len(xl.fieldValues) THEN xl.fieldValues[i] ELSE Undefined

Translated(o) ==
    /\ \A k \in 1..3 : o[fieldNames[k]] = Expected(k)
    /\ o.fieldIndex = FIInt(xl.fieldIndex)
    /\ o.policies = NoPolicies

InvC6 ==
    /\ "get" \in xl.did => Translated(xl.get)
    /\ "remove" \in xl.did => Translated(xl.remove)
    /\ xl.did = {"get", "remove"} => xl.get = xl.remove
    /\ ("get" \in xl.did /\ xl.fieldIndex = 0 /\ Len(xl.fieldValues) = 3) =>
          /\ xl.get.sub = xl.fieldValues[1]
          /\ xl.get.obj = xl.fieldValues[2]
          /\ xl.get.act = xl.fieldValues[3]
    /\ ("get" \in xl.did /\ xl.fieldIndex = 2 /\ Len(xl.fieldValues) \in {1, 2}) =>
          /\ xl.get.sub = Undefined
          /\ xl.get.obj = Undefined
          /\ xl.get.act = xl.fieldValues[1]

WitC6 ==
    /\ xl.did = {"get", "remove"}
    /\ xl.fieldIndex = 2
    /\ Len(xl.fieldValues) = 2
    /\ xl.get.act = xl.fieldValues[1]

\* a batch request with an element whose sub, obj or act is missing or empty
BadBatch(q) ==
    /\ Handler(q.req) \in {"postPolicies", "deletePolicies"}
    /\ q.req.body.policies.present
    /\ \E k \in 1..Len(q.req.body.policies.items) :
          LET e == q.req.body.policies.items[k]
          IN e.sub \in {Undefined, ""} \/ e.obj \in {Undefined, ""} \/ e.act \in {Undefined, ""}

StateC7 ==
    \A r \in Slots :
        LET q == reqs[r]
        IN BadBatch(q) =>
              /\ q.calls = <<>>
              /\ q.pc \notin {"await", "error"}
              /\ Validated(q) => q.resp.status = 400 /\ q.pc = "done" /\ Has(q, "validate:fail")

StepC7 == (\E r \in Slots : BadBatch(reqs[r])) => policySet' = policySet

\* C7: a POST /policies or DELETE /policies whose batch holds an element that is not a valid
\* tuple is answered 400 by its handler without any Decision Engine call (StateC7), and no
\* step taken while that request is in the gateway changes the policy set (StepC7).
ThmC7 == [](StateC7) /\ [][StepC7]_vars

WitC7 ==
    \E r \in Slots :
        /\ BadBatch(reqs[r])
        /\ Len(reqs[r].req.body.policies.items) = 2
        /\ TupleError(reqs[r].req.body.policies.items[1], 1) = NoError
        /\ reqs[r].resp.status = 400

\* C8: a POST /policies or DELETE /policies whose policies array is empty is answered 400 by
\* its handler and makes no Decision Engine call.
ClaimC8 ==
    \A r \in Slots :
        LET q == reqs[r]
        IN ( /\ Handler(q.req) \in {"postPolicies", "deletePolicies"}
             /\ q.req.body.policies.present
             /\ q.req.body.policies.items = <<>>
             /\ Validated(q) ) =>
              /\ q.calls = <<>>
              /\ q.pc = "done" => q.resp.status = 400

\* C9: a filter request (GET /policy, DELETE /filtered_policy) that reached validation is
\* answered 400 when none of sub, obj, act is present, and is accepted with fieldIndex 0
\* when at least one of them is present and fieldIndex is absent.
Filter(q) ==
    IF Handler(q.req) = "getPolicy" THEN q.req.query ELSE q.req.body

IsFilter(q) == Handler(q.req) \in {"getPolicy", "deleteFilteredPolicy"} /\ Validated(q)

Present(f) == {n \in {"sub", "obj", "act"} : f[n] # Undefined}

ClaimC9 ==
    \A r \in Slots :
        LET q == reqs[r]
        IN IsFilter(q) =>
              /\ Present(Filter(q)) = {} => q.resp.status = 400 /\ q.calls = <<>>
              /\ (Present(Filter(q)) # {} /\ Filter(q).fieldIndex = FIUndef) =>
                    /\ Has(q, "validate:ok")
                    /\ q.calls # <<>>
                    /\ q.calls[1].idx = 0

\* C10: a filter request whose only supplied field is the empty string passes validation and
\* reaches the Decision Engine with the empty string as its one filter value.
ClaimC10 ==
    \A r \in Slots :
        LET q == reqs[r]
        IN ( /\ IsFilter(q)
             /\ FieldIndexError(Filter(q).fieldIndex) = "none"
             /\ Cardinality(Present(Filter(q))) = 1
             /\ \A n \in Present(Filter(q)) : Filter(q)[n] = "" ) =>
              /\ Has(q, "validate:ok")
              /\ q.calls # <<>>
              /\ q.calls[1].vals = <<"">>

\* the tuple a single-tuple request names
Tuple(q) == <<q.req.body.sub, q.req.body.obj, q.req.body.act>>

\* the step in which the handler h of slot r gets the engine's answer and responds 200
Answers(r, h) ==
    /\ reqs[r].pc = "await"
    /\ Handler(reqs[r].req) = h
    /\ reqs'[r].pc = "done"
    /\ reqs'[r].resp.status = 200

StepC11 ==
    \A r \in Slots :
        Answers(r, "postPolicy") =>
            /\ reqs'[r].resp.body = BodyBool("added", Tuple(reqs[r]) \notin policySet)
            /\ policySet' = policySet \cup {Tuple(reqs[r])}

\* C11: when POST /policy with a valid tuple t is answered 200, the body is {added: true} and
\* the policy set gains t if t was not in the set, and the body is {added: false} and the
\* policy set is unchanged if t was in it: so of two identical calls with no removal between
\* them the second answers false and leaves the set as the first left it.
ThmC11 == [][StepC11]_vars

WitC11 ==
    \E r \in Slots :
        /\ Handler(reqs[r].req) = "postPolicy"
        /\ reqs[r].resp = [status |-> 200, body |-> BodyBool("added", FALSE)]
        /\ Tuple(reqs[r]) \in policySet
        /\ [level |-> "warn", msg |-> "Policy already exists"] \in reqs[r].logs

\* an engine call of q failed: its handler's catch block has logged msg
Failed(q, msg) == [level |-> "error", msg |-> msg] \in q.logs

\* C12: a DELETE /policies request for which one removePolicy call failed is not handed to
\* the error middleware: its loop goes on (or has ended), and when it is answered the answer
\* is 200 {removed: count} after one removePolicy call for each element of the batch.
ClaimC12 ==
    \A r \in Slots :
        LET q == reqs[r]
        IN (Handler(q.req) = "deletePolicies" /\ Failed(q, "Failed to remove policies:")) =>
              /\ q.pc \in {"await", "done"}
              /\ q.pc = "done" =>
                    /\ q.resp.status = 200
                    /\ q.resp.body.key = "removed"
                    /\ Len(q.calls) = Len(q.req.body.policies.items)

\* the messages the route handlers' catch blocks log
FailureMessages ==
    { "Failed to retrieve policies:", "Failed to add policy:", "Failed to add policies:",
      "Failed to remove policy:", "Failed to remove policies:",
      "Failed to get filtered policy:", "Failed to remove filtered policy:",
      "Failed to enforce policy:" }

\* a call of q to the engine has failed
EngineFailed(q) == q.calls # <<>> /\ Has(q, "next(err)")

\* C13: a request one of whose Decision Engine calls failed has an error record logged by
\* its handler; it is either on its way to the error middleware with nothing sent (and the
\* error middleware can take it), or it is answered, once, with status 500 and the fixed body
\* {error: "Internal Server Error."}, the error middleware having logged it too.  Only
\* requests that passed authentication and validation ever have a failed engine call.
InvC13 ==
    \A r \in Slots :
        LET q == reqs[r]
        IN EngineFailed(q) =>
              /\ Has(q, "auth:ok") /\ (Validated(q) => Has(q, "validate:ok"))
              /\ \E m \in FailureMessages : Failed(q, m)
              /\ IF q.pc = "done"
                 THEN /\ q.resp = [status |-> 500, body |-> Message("Internal Server Error.")]
                      /\ q.sent = 1
                      /\ Failed(q, "Unhandled error")
                 ELSE /\ q.pc = "error"
                      /\ q.sent = 0
                      /\ ENABLED ErrorMiddleware(r)

WitC13 ==
    \E r \in Slots :
        /\ Handler(reqs[r].req) = "postEnforce"
        /\ Failed(reqs[r], "Failed to enforce policy:")
        /\ reqs[r].resp = [status |-> 500, body |-> Message("Internal Server Error.")]

\* the routes that only read the policy set, and the engine operations they may call
ReadRoutes == {"postEnforce", "getPolicies", "getPolicy"}
ReadOps == {"enforce", "getPolicy", "getFilteredPolicy"}

StateC14 ==
    \A r \in Slots :
        LET q == reqs[r]
        IN Handler(q.req) \in ReadRoutes =>
              \A k \in 1..Len(q.calls) : q.calls[k].op \in ReadOps

StepC14 ==
    (\E r \in Slots : Handler(reqs[r].req) \in ReadRoutes \/ Handler(reqs'[r].req) \in ReadRoutes)
        => policySet' = policySet

\* C14: POST /enforce, GET /policies and GET /policy are read-only: no step of such a request,
\* from its arrival to its answer, whether it is refused, answered 200 or fails in the engine,
\* changes the policy set (StepC14), and the only engine operations it calls are enforce,
\* getPolicy and getFilteredPolicy (StateC14).
ThmC14 == [](StateC14) /\ [][StepC14]_vars

WitC14 ==
    \E r \in Slots :
        /\ Handler(reqs[r].req) = "postEnforce"
        /\ reqs[r].resp = [status |-> 200, body |-> BodyBool("allowed", FALSE)]
        /\ Len(reqs[r].calls) = 1
        /\ Tuple(reqs[r]) \notin policySet

NotInitialized == [level |-> "error", msg |-> "Enforcer not initialized."]

StateC15 ==
    /\ proc \in {"initialized", "listening"} => enforcer = "ready"
    /\ proc # "listening" => \A r \in Slots : reqs[r] = Idle
    /\ \A r \in Slots :
          /\ reqs[r].resp.body # Message("Enforcer not initialized.")
          /\ NotInitialized \notin reqs[r].logs
          /\ (reqs[r].pc \in {"route", "await"} \/ reqs[r].calls # <<>>) =>
                Has(reqs[r], "ready") /\ enforcer = "ready"

StepC15 ==
    /\ proc' # proc =>
          \/ proc = "starting" /\ proc' = "initialized" /\ enforcer' = "ready"
          \/ proc = "starting" /\ proc' = "exited"
          \/ proc = "initialized" /\ proc' = "listening" /\ enforcer = "ready"
    /\ enforcer = "ready" => enforcer' = "ready"

\* C15: the gateway listens only after initializeEnforcer has succeeded, and a failed
\* initialization ends the process from its starting state, before it listens (StepC15); no
\* request is in the gateway unless it listens with the enforcer ready, and no request is
\* ever answered or logged "Enforcer not initialized." (StateC15).
ThmC15 == [](StateC15) /\ [][StepC15]_vars

WitC15 ==
    /\ proc = "listening"
    /\ \E r \in Slots :
          /\ Has(reqs[r], "ready")
          /\ reqs[r].resp.status = 200
          /\ Handler(reqs[r].req) = "getPolicies"

\* C16: startStressTest has logged "Stress test completed" only when every one of the
\* clients has finished: its loop is over after REQUESTS_PER_CLIENT iterations, each of
\* whose calls has completed or failed, and it has no call in flight.
InvC16 ==
    stress = "completed" =>
        \A c \in Clients :
            /\ clients[c].pc = "finished"
            /\ clients[c].i = REQUESTS_PER_CLIENT
            /\ clients[c].done = REQUESTS_PER_CLIENT
            /\ clients[c].inflight = 0

WitC16 ==
    /\ stress = "completed"
    /\ \A c \in Clients : clients[c].pc = "finished" /\ clients[c].issued = REQUESTS_PER_CLIENT

\* the operations the clients 1..n have performed
RECURSIVE Performed(_)
Performed(n) == IF n = 0 THEN 0 ELSE clients[n].done + Performed(n - 1)

Completed ==
    /\ stress = "completed"
    /\ Performed(CONCURRENT_CLIENTS) = CONCURRENT_CLIENTS * REQUESTS_PER_CLIENT

\* C17: if every issued call completes or fails in the end and every ready continuation is
\* run, the harness ends "Stress test completed" having performed exactly
\* CONCURRENT_CLIENTS * REQUESTS_PER_CLIENT operations, and in every state before that some
\* step of the harness is possible.
ThmC17 == [](stress # "completed" => ENABLED NextHarness) /\ <>Completed

WitC17 == Completed /\ \A c \in Clients : clients[c].errors \in 0..REQUESTS_PER_CLIENT

\* C18: a client has at most one call in flight, and has begun at most one iteration more
\* than it has seen end: it issues the call of the next iteration only when the call of
\* the one before has completed or failed.
InvC18 ==
    \A c \in Clients :
        LET k == clients[c]
        IN /\ k.inflight \in {0, 1}
           /\ k.issued - k.done \in {0, 1}
           /\ k.inflight <= k.issued - k.done
           /\ k.issued = k.done + 1 <=> k.pc = "await"
           /\ k.pc = "await" => k.i = k.done /\ (k.inflight = 1 \/ k.thrown)

\* two clients with calls in flight at once, the one started later ahead of the other
WitC18 ==
    \E c, d \in Clients :
        /\ c < d
        /\ clients[c].inflight = 1 /\ clients[d].inflight = 1
        /\ clients[d].done > clients[c].done

StateC19 ==
    /\ \A c \in Clients :
          /\ clients[c].pc \in {"none", "await", "finished"}
          /\ clients[c].errors <= clients[c].done
          /\ clients[c].pc = "finished" => clients[c].done = REQUESTS_PER_CLIENT
          /\ SignThrows(env) => clients[c].errors = clients[c].done
    /\ stress \in {"idle", "awaiting", "completed"}

StepC19 ==
    \A c \in Clients :
        clients'[c].done > clients[c].done =>
            /\ clients'[c].done = clients[c].done + 1
            /\ clients'[c].errors \in {clients[c].errors, clients[c].errors + 1}
            /\ clients[c].thrown => clients'[c].errors = clients[c].errors + 1
            /\ clients'[c].i = clients[c].i + 1
            /\ clients'[c].pc = IF clients'[c].i < REQUESTS_PER_CLIENT THEN "await" ELSE "finished"
            /\ \A d \in Clients \ {c} : clients'[d] = clients[d]
            /\ stress' = stress

\* C19: when the call of an iteration ends, with a response or with an error (an error
\* response, a transport error, a token that could not be made), the client goes on to its
\* next iteration, or has finished if that was the last, the error is counted as logged, and
\* no other client and not the harness is touched (StepC19); no client ever stops before its
\* last iteration (StateC19).
ThmC19 == [](StateC19) /\ [][StepC19]_vars

WitC19 ==
    /\ stress = "completed"
    /\ \E c, d \in Clients :
          /\ clients[c].errors = 1 /\ clients[c].done = REQUESTS_PER_CLIENT
          /\ clients[d].errors = 0 /\ clients[d].done = REQUESTS_PER_CLIENT

\* the decision of the engine for the tuple of q over the rules P
Decision(P, q) == EngineExec(P, Call("enforce", 0, Tuple(q), <<>>)).bool

StateC20 ==
    \A r \in ConcSlots :
        LET q == reqs[r]
        IN /\ \A s \in ConcSlots \ {r} :
                 (q.pc # "idle" /\ reqs[s].pc # "idle") => Tuple(q) # Tuple(reqs[s])
           /\ \A k \in 1..Len(q.calls) : q.calls[k] = Call("enforce", 0, Tuple(q), <<>>)
           /\ (q.pc = "done" /\ q.resp.status = 200) =>
                 /\ q.resp.body = BodyBool("allowed", Decision(policySet, q))
                 /\ Len(q.calls) = 1

\* C20: while POST /enforce requests for pairwise different tuples are in the gateway
\* together, in whatever order their steps are taken, the policy set does not change, the
\* one engine call of each request asks about that request's own tuple, and each 200 answer
\* carries the engine's decision for its own tuple.
ThmC20 == [](StateC20) /\ [][policySet' = policySet]_vars

WitC20 ==
    \E r, s \in ConcSlots :
        /\ reqs[r].resp = [status |-> 200, body |-> BodyBool("allowed", TRUE)]
        /\ reqs[s].resp = [status |-> 200, body |-> BodyBool("allowed", FALSE)]
        /\ Tuple(reqs[r]) \in policySet
        /\ Tuple(reqs[s]) \notin policySet

\* some step l of q comes before its k-th step
Before(q, l, k) == \E j \in 1..(k - 1) : q.steps[j] = l

\* the request of q carries no token the gateway accepts
Unauthenticated(q) == ~(Verifies(q) /\ Token(q).accountId = AWS_ACCOUNT_ID)

\* C21: on every route other than /health the steps of a request come in the order
\* authenticate, validate, engine call, respond: a validation or an engine call comes after
\* a passed authentication, an engine call of a route with a schema comes after a passed
\* validation, and the response is the last step.  A request whose body parsed, that carries
\* no acceptable token and whose payload fails its route's schema is answered 401 or 403,
\* never 400, and is never validated.
InvC21 ==
    \A r \in Slots :
        LET q == reqs[r]
        IN q.req.path # "/health" =>
              /\ \A k \in 1..Len(q.steps) :
                    /\ q.steps[k] \in {"validate:ok", "validate:fail", "engine"} =>
                          Before(q, "auth:ok", k)
                    /\ (q.steps[k] = "engine" /\ Handler(q.req) # "getPolicies") =>
                          Before(q, "validate:ok", k)
                    /\ q.steps[k] = "respond" => k = Len(q.steps)
                    /\ q.steps[k] = "auth:fail" => q.steps[Len(q.steps)] = "respond" /\ k = Len(q.steps) - 1
              /\ q.resp.status = 400 => Has(q, "auth:ok")
              /\ (Authenticated(q) /\ Unauthenticated(q) /\ ~SchemaOk(q)) =>
                    /\ q.resp.status \in {401, 403}
                    /\ ~Validated(q)
                    /\ q.calls = <<>>

WitC21 ==
    \E r \in Slots :
        /\ Handler(reqs[r].req) = "postPolicy"
        /\ ~reqs[r].req.headers.present
        /\ ~SchemaOk(reqs[r])
        /\ reqs[r].resp.status = 401

\* C22: a filter request (GET /policy, DELETE /filtered_policy) that reached validation with
\* a fieldIndex of 3 or more, which names no slot of a (sub, obj, act) rule, makes no
\* Decision Engine call and is answered 400.
ClaimC22 ==
    \A r \in Slots :
        LET q == reqs[r]
        IN ( /\ IsFilter(q)
             /\ Filter(q).fieldIndex.kind = "int"
             /\ Filter(q).fieldIndex.n >= 3 ) =>
              /\ q.calls = <<>>
              /\ q.pc = "done" => q.resp.status = 400

\* C23: for a filter request that reached the Decision Engine with arguments that all fall
\* on slots of a rule, the k-th value passed after fieldIndex is the value the request
\* carried in the field of slot fieldIndex + k (sub, obj, act in that order).
ClaimC23 ==
    \A r \in Slots :
        LET q == reqs[r]
        IN (IsFilter(q) /\ q.calls # <<>> /\ q.calls[1].idx + Len(q.calls[1].vals) <= 3) =>
              \A k \in 1..Len(q.calls[1].vals) :
                  q.calls[1].vals[k] = Filter(q)[fieldNames[q.calls[1].idx + k]]

\* the values of the client's call that fall on slots of a rule, in their order
Fitting == SubSeq(xl.fieldValues, 1, IF Len(xl.fieldValues) <= 3 - xl.fieldIndex
                                     THEN Len(xl.fieldValues) ELSE 3 - xl.fieldIndex)

\* C24: when the client is called with a fieldIndex in 0..2 and a non-empty sequence of
\* non-empty values, the filter request it sends passes the gateway's validation and the
\* gateway calls the engine once, with that fieldIndex and with those values in their order,
\* all of them when they fit in the slots from fieldIndex on and the first 3 - fieldIndex of
\* them when they do not.
InvC24 ==
    \A r \in Slots :
        LET q == reqs[r]
        IN (IsFilter(q) /\ xl.fieldIndex \in 0..2 /\ xl.fieldValues # <<>>) =>
              /\ Has(q, "validate:ok")
              /\ Len(q.calls) = 1
              /\ q.calls[1].op = IF Handler(q.req) = "getPolicy" THEN "getFilteredPolicy"
                                 ELSE "removeFilteredPolicy"
              /\ q.calls[1].idx = xl.fieldIndex
              /\ q.calls[1].vals = Fitting
              /\ q.pc = "done" => q.resp.status \in {200, 500}

WitC24 ==
    \E r \in Slots :
        /\ Handler(reqs[r].req) = "getPolicy"
        /\ xl.fieldIndex = 1
        /\ Len(xl.fieldValues) = 3
        /\ reqs[r].calls # <<>>
        /\ reqs[r].calls[1].vals = <<xl.fieldValues[1], xl.fieldValues[2]>>
        /\ reqs[r].resp.status = 200

\* the responses q has sent, counted in its steps
Responses(q) == Cardinality({k \in 1..Len(q.steps) : q.steps[k] = "respond"})

StateC25 ==
    \A r \in Slots :
        LET q == reqs[r]
        IN /\ q.sent = Responses(q)
           /\ q.sent <= 1
           /\ q.pc = "done" <=> q.sent = 1
           /\ q.sent = 1 => q.steps[Len(q.steps)] = "respond" /\ q.resp.status # 0
           /\ q.sent = 0 => q.resp = NoResp
           /\ q.pc \notin {"idle", "done"} => ENABLED (Chain(r) \/ Routes(r))
           /\ q.resp.status \in {400, 401, 403, 404} =>
                 q.calls = <<>> /\ ~Has(q, "engine") /\ ~Has(q, "next(err)")
           /\ q.resp.status \in {401, 403} => ~Has(q, "ready") /\ ~Validated(q)

StepC25 ==
    \A r \in Slots : reqs[r].pc = "done" => reqs'[r] \in {reqs[r], Idle}

\* C25: a request in the gateway has sent no response while a stage of the chain is still to
\* run for it, and such a stage can always run; once it has sent its response it has sent
\* exactly one, the response was its last step, and nothing happens to it any more until it
\* leaves the gateway (StepC25); a request answered with a rejection (400, 401, 403, 404) has
\* made no engine call and was not handed on.
ThmC25 == [](StateC25) /\ [][StepC25]_vars

WitC25 ==
    \E r \in Slots :
        /\ Handler(reqs[r].req) = "deletePolicy"
        /\ EngineFailed(reqs[r])
        /\ reqs[r].sent = 1
        /\ reqs[r].resp.status = 500


====
